---- MODULE Spec2Model ----
(***************************************************************************)
(* Content intelligence core of the screenshot manager:                    *)
(*   - AIProcessor: the per-artifact analysis pipeline with its in-flight  *)
(*     registry (processingQueue),                                         *)
(*   - OpenAIEmbeddingService: the embedding store, its durable index file *)
(*     and its queries.                                                    *)
(* JavaScript runs every handler to its next await without interruption;   *)
(* an action of this module is one such uninterrupted stretch of code.     *)
(***************************************************************************)
EXTENDS Integers, Sequences, FiniteSets, TLC

\* ------------------------------------------------------------ bounds
\* artifact ids 1..NumIds
NumIds == 2
\* processScreenshot calls made in one behaviour
MaxCallers == 2
\* addImage calls in flight at the same time
MaxAdds == 2
\* the largest k of a searchByText call and limit of a search-screenshots call
MaxK == 2
\* the metadata rows of one screenshot
MaxAnalyses == 2
\* the screenshots of one batchProcess call
MaxBatch == 7

Ids == 1..NumIds
Callers == 1..MaxCallers

None == 0
Unset == "unset"

\* ------------------------------------------------------------ state
VARIABLES
  processingQueue,  \* AIProcessor.processingQueue: id -> the run registered for it, or None
  runs,             \* the doProcessScreenshot computations, named by the caller that started them
  callers,          \* the processScreenshot calls
  items,            \* OpenAIEmbeddingService.items: id -> record, or NoItem
  indexFile,        \* the file at metadataPath
  tmpFile,          \* the file at metadataPath + '.tmp'
  files,            \* the backing files that exist
  adds,             \* the addImage calls suspended at an await
  search,           \* the searchByText call: idle, or waiting for the query's embedding
  saving,           \* where save() stands, and for which operation
  returned,         \* what the last step handed back to a caller
  screenshots,      \* the screenshots table: id -> filepath, or None
  metadata,         \* the screenshot_metadata table: id -> number of rows
  entry,            \* the search-screenshots call waiting for searchByText
  replied,          \* what the last step replied to an IPC call
  created,          \* the created_at column of the screenshots table: id -> ms, or None
  batch,            \* the batchProcess call
  links,            \* the screenshot_folders rows of a folder and the screenshot_tags rows of a tag
  local             \* the last call of a text heuristic: its argument and what it returned

pipelineVars == <<processingQueue, runs, callers>>
storeVars == <<items, indexFile, tmpFile, files, adds, search, saving, returned>>
appVars == <<screenshots, metadata, entry, replied, created, batch, links, local>>
vars == <<processingQueue, runs, callers,
          items, indexFile, tmpFile, files, adds, search, saving, returned,
          screenshots, metadata, entry, replied, created, batch, links, local>>

\* ------------------------------------------------- remote responses
\* A remote response: the call throws, or returns an object {text, confidence},
\* a bare string, or something of another shape. Confidence is in tenths.
Resp(kind, text, confidence) == [kind |-> kind, text |-> text, confidence |-> confidence]

Throws == Resp("throw", "", 0)

\* the OCR responses the pipeline is driven with
OcrResponses ==
  { Throws,
    Resp("object", "Hello", 9),
    Resp("object", "", 0),
    Resp("string", " ", 0),
    Resp("string", "", 0),
    Resp("other", "", 0) }

\* String.prototype.trim on the texts of the model
Trim(text) == IF text = " " THEN "" ELSE text

\* JavaScript truthiness of a string / of a number
Truthy(text) == text # ""

\* the responses of the remote calls that return a string
StringResponses == { Throws, Resp("string", "", 0), Resp("string", "remote", 0) }

\* the responses of AnalyzeScreenshotContent: it throws, or returns a
\* ContentAnalysis whose optional fields may be null
Analysis(kind, ct, app, url) ==
  [kind |-> kind, content_type |-> ct, app_detected |-> app, url_detected |-> url]

ClassifyResponses ==
  { Analysis("throw", "null", "null", "null"),
    Analysis("object", "code", "VS Code", "null") }

\* x || undefined
OrUndefined(x) == IF x \in {"null", ""} THEN Unset ELSE x

\* ------------------------------------------------ AIProcessor stages
\* AIProcessor.extractText
extractText(resp) ==
  IF resp.kind = "throw" THEN [text |-> "", confidence |-> 0]
  ELSE IF resp.kind = "object"
    THEN [text |-> resp.text,
          confidence |-> IF resp.confidence # 0 THEN resp.confidence ELSE 8]
  ELSE IF resp.kind = "string" THEN [text |-> resp.text, confidence |-> 8]
  ELSE [text |-> "", confidence |-> 0]

\* AIProcessor.generateTitle: the remote title, else the heuristic one
generateTitle(resp, ocrText) ==
  IF resp.kind = "string" /\ Truthy(resp.text) THEN "title:remote"
  ELSE "title:heuristic"

\* AIProcessor.generateDescription: the remote description, the templated
\* sentence on an empty answer, the literal 'Screenshot' on an error
generateDescription(resp, ocrText) ==
  IF resp.kind = "throw" THEN "Screenshot"
  ELSE IF resp.kind = "string" /\ Truthy(resp.text) THEN "description:remote"
  ELSE "description:template"

\* AIProcessor.extractKeywords on the texts of the model
extractKeywords(ocrText) ==
  IF Trim(ocrText) = "" THEN <<>> ELSE <<"hello">>

\* AIProcessor.generateComprehensiveDescription
generateComprehensiveDescription(resp, ocrText, title, keywords) ==
  IF resp.kind = "throw" THEN "comprehensive:basic-fallback"
  ELSE IF resp.kind = "string" /\ Truthy(resp.text) THEN "comprehensive:remote"
  ELSE "comprehensive:fallback"

\* the guard of the full analysis: ocrResult.text && ocrResult.text.trim().length > 0
OcrSuccessful_Always(ocrResult) == TRUE

OcrSuccessful(ocrResult) == Truthy(ocrResult.text) /\ Trim(ocrResult.text) # ""

EmptyResult ==
  [ocr_text |-> Unset, confidence_score |-> Unset, ai_title |-> Unset,
   ai_description |-> Unset, ai_keywords |-> Unset, content_type |-> Unset,
   app_detected |-> Unset, url_detected |-> Unset,
   comprehensive_description |-> Unset]

NoLocals == [ocrResult |-> Unset, titleResult |-> Unset, descriptionResult |-> Unset,
             keywordsResult |-> Unset, contentAnalysis |-> Unset]

\* a doProcessScreenshot computation: where it is suspended, the remote calls
\* it has issued so far, its local variables and, once fulfilled, its result
NoRun == [pc |-> "unused", id |-> None, error |-> "none", calls |-> <<>>,
          locals |-> NoLocals, result |-> EmptyResult]

\* a processScreenshot call: found is the registry entry it saw on entry,
\* foundSettled whether that computation had already settled
NoCaller == [state |-> "idle", id |-> None, run |-> None, creator |-> FALSE,
             found |-> None, foundSettled |-> FALSE, result |-> EmptyResult]

Settled(r) == runs[r].pc \in {"fulfilled", "rejected"}
InProgress(r) == runs[r].pc \in {"ocr", "title", "description", "classify", "comprehensive"}

\* a continuation of an await on a settled promise is queued: it runs before
\* any timer, I/O callback or IPC message is handled
MicrotaskPending ==
  \E c \in Callers : callers[c].state = "awaiting" /\ Settled(callers[c].run)

NextCaller(c) ==
  callers[c].state = "idle" /\ \A d \in Callers : d < c => callers[d].state # "idle"

\* artifact ids are opaque: the calls of a behaviour name them in order of
\* first use, id 1 first
FreshOrUsed(id) ==
  \A j \in Ids : j < id => \E c \in Callers : callers[c].id = j

PipelineInit ==
  /\ processingQueue = [i \in Ids |-> None]
  /\ runs = [c \in Callers |-> NoRun]
  /\ callers = [c \in Callers |-> NoCaller]

\* this.processingQueue.has(screenshotId)
AlreadyProcessing_Never(id) == FALSE

AlreadyProcessing(id) == processingQueue[id] # None

\* doProcessScreenshot up to its first await: the image is read (a failing read
\* rejects the computation at once) and the OCR call is issued
StartRun_TitleAtOnce(id, readable) ==
  IF readable
    THEN [NoRun EXCEPT !.pc = "ocr", !.id = id,
                       !.calls = <<"ExtractAllText", "GenerateScreenshotTitle">>]
    ELSE [NoRun EXCEPT !.pc = "rejected", !.id = id, !.error = "read"]

StartRun(id, readable) ==
  IF readable
    THEN [NoRun EXCEPT !.pc = "ocr", !.id = id, !.calls = <<"ExtractAllText">>]
    ELSE [NoRun EXCEPT !.pc = "rejected", !.id = id, !.error = "read"]

\* processScreenshot up to its await
ProcessScreenshot(c, id, readable) ==
  /\ NextCaller(c)
  /\ FreshOrUsed(id)
  /\ ~MicrotaskPending
  /\ IF AlreadyProcessing(id)
       THEN /\ callers' = [callers EXCEPT ![c] =
                   [NoCaller EXCEPT !.state = "awaiting", !.id = id,
                                    !.run = processingQueue[id],
                                    !.found = processingQueue[id],
                                    !.foundSettled = Settled(processingQueue[id])]]
            /\ UNCHANGED <<processingQueue, runs>>
       ELSE /\ runs' = [runs EXCEPT ![c] = StartRun(id, readable)]
            /\ processingQueue' = [processingQueue EXCEPT ![id] = c]
            /\ callers' = [callers EXCEPT ![c] =
                   [NoCaller EXCEPT !.state = "awaiting", !.id = id, !.run = c,
                                    !.creator = TRUE,
                                    !.found = processingQueue[id]]]
  /\ UNCHANGED <<storeVars, appVars>>

\* the OCR call returns: the short result when no text was extracted, else
\* the title call is issued
OcrReturns(r, resp) ==
  /\ runs[r].pc = "ocr"
  /\ ~MicrotaskPending
  /\ LET ocrResult == extractText(resp)
         analysisResult == [EmptyResult EXCEPT !.ocr_text = ocrResult.text,
                                               !.confidence_score = ocrResult.confidence]
     IN runs' = [runs EXCEPT ![r] =
          IF OcrSuccessful(ocrResult)
            THEN [@ EXCEPT !.pc = "title", !.locals.ocrResult = ocrResult,
                           !.calls = Append(@, "GenerateScreenshotTitle")]
            ELSE [@ EXCEPT !.pc = "fulfilled", !.locals.ocrResult = ocrResult,
                           !.result = analysisResult]]
  /\ UNCHANGED <<processingQueue, callers>>
  /\ UNCHANGED <<storeVars, appVars>>

\* the title call returns; the description call is issued
TitleReturns(r, resp) ==
  /\ runs[r].pc = "title"
  /\ ~MicrotaskPending
  /\ runs' = [runs EXCEPT ![r] =
        [@ EXCEPT !.pc = "description",
                  !.locals.titleResult = generateTitle(resp, runs[r].locals.ocrResult.text),
                  !.calls = Append(@, "AnalyzeScreenshotContentDetailed")]]
  /\ UNCHANGED <<processingQueue, callers>>
  /\ UNCHANGED <<storeVars, appVars>>

\* the description call returns; the keywords are extracted locally and the
\* classification call is issued
DescriptionReturns(r, resp) ==
  /\ runs[r].pc = "description"
  /\ ~MicrotaskPending
  /\ runs' = [runs EXCEPT ![r] =
        [@ EXCEPT !.pc = "classify",
                  !.locals.descriptionResult =
                      generateDescription(resp, runs[r].locals.ocrResult.text),
                  !.locals.keywordsResult = extractKeywords(runs[r].locals.ocrResult.text),
                  !.calls = Append(@, "AnalyzeScreenshotContent")]]
  /\ UNCHANGED <<processingQueue, callers>>
  /\ UNCHANGED <<storeVars, appVars>>

\* the classification call returns, or throws: nothing catches its error
\* before the pipeline's own catch, which rethrows
ClassificationReturns(r, resp) ==
  /\ runs[r].pc = "classify"
  /\ ~MicrotaskPending
  /\ runs' = [runs EXCEPT ![r] =
        IF resp.kind = "throw"
          THEN [@ EXCEPT !.pc = "rejected", !.error = "classify"]
          ELSE [@ EXCEPT !.pc = "comprehensive", !.locals.contentAnalysis = resp,
                         !.calls = Append(@, "GenerateComprehensiveDescription")]]
  /\ UNCHANGED <<processingQueue, callers>>
  /\ UNCHANGED <<storeVars, appVars>>

\* the comprehensive-description call returns: the full result is assembled
ComprehensiveReturns(r, resp) ==
  /\ runs[r].pc = "comprehensive"
  /\ ~MicrotaskPending
  /\ LET l == runs[r].locals
     IN runs' = [runs EXCEPT ![r] =
          [@ EXCEPT !.pc = "fulfilled",
                    !.result =
                      [ocr_text |-> l.ocrResult.text,
                       confidence_score |-> l.ocrResult.confidence,
                       ai_title |-> l.titleResult,
                       ai_description |-> l.descriptionResult,
                       ai_keywords |-> l.keywordsResult,
                       content_type |-> l.contentAnalysis.content_type,
                       app_detected |-> OrUndefined(l.contentAnalysis.app_detected),
                       url_detected |-> OrUndefined(l.contentAnalysis.url_detected),
                       comprehensive_description |->
                         generateComprehensiveDescription(resp, l.ocrResult.text,
                                                          l.titleResult, l.keywordsResult)]]]
  /\ UNCHANGED <<processingQueue, callers>>
  /\ UNCHANGED <<storeVars, appVars>>

\* the finally block of processScreenshot
QueueAfterSettle_OnSuccessOnly(id, outcome) ==
  IF outcome = "fulfilled" THEN [processingQueue EXCEPT ![id] = None] ELSE processingQueue

QueueAfterSettle(id, outcome) == [processingQueue EXCEPT ![id] = None]

Outcome(r) == IF runs[r].pc = "fulfilled" THEN "returned" ELSE "raised"

\* the call that started the computation resumes: its await was the first
\* one on the promise, so it runs first; it removes the registry entry
CreatorResumes(c) ==
  /\ callers[c].state = "awaiting"
  /\ callers[c].creator
  /\ Settled(callers[c].run)
  /\ processingQueue' = QueueAfterSettle(callers[c].id, runs[callers[c].run].pc)
  /\ callers' = [callers EXCEPT ![c].state = Outcome(callers[c].run),
                                ![c].result = runs[callers[c].run].result]
  /\ UNCHANGED runs
  /\ UNCHANGED <<storeVars, appVars>>

\* a call that attached to the computation resumes, after the creator and
\* after the calls that attached before it
WaiterResumes(c) ==
  /\ callers[c].state = "awaiting"
  /\ ~callers[c].creator
  /\ Settled(callers[c].run)
  /\ \A d \in Callers :
        (d < c /\ callers[d].run = callers[c].run) => callers[d].state # "awaiting"
  /\ callers' = [callers EXCEPT ![c].state = Outcome(callers[c].run),
                                ![c].result = runs[callers[c].run].result]
  /\ UNCHANGED <<processingQueue, runs>>
  /\ UNCHANGED <<storeVars, appVars>>

PipelineNext ==
  \/ \E c \in Callers, id \in Ids, readable \in BOOLEAN : ProcessScreenshot(c, id, readable)
  \/ \E r \in Callers, resp \in OcrResponses : OcrReturns(r, resp)
  \/ \E r \in Callers, resp \in StringResponses : TitleReturns(r, resp)
  \/ \E r \in Callers, resp \in StringResponses : DescriptionReturns(r, resp)
  \/ \E r \in Callers, resp \in ClassifyResponses : ClassificationReturns(r, resp)
  \/ \E r \in Callers, resp \in StringResponses : ComprehensiveReturns(r, resp)
  \/ \E c \in Callers : CreatorResumes(c)
  \/ \E c \in Callers : WaiterResumes(c)

\* ------------------------------------------------ the embedding store
\* a screenshot's filepath; the callers of addImage pass the path of its id
PathOf(id) == id
Paths == {PathOf(id) : id \in Ids}

\* the answers of the embeddings endpoint to addImage: an error, a document
\* whose embedding is empty, or a vector. Within SpecStore the endpoint keeps
\* one dimension; the components are not negative and not all zero.
EmbedResponses ==
  { [kind |-> "error", embedding |-> <<>>],
    [kind |-> "ok", embedding |-> <<>>],
    [kind |-> "ok", embedding |-> <<1, 0>>] }

\* the answers of the endpoint to a search query: those above, vectors in
\* other directions, and a vector of another dimension
QueryResponses ==
  EmbedResponses \cup { [kind |-> "ok", embedding |-> <<0, 1>>],
                        [kind |-> "ok", embedding |-> <<1>>] }

\* the vector of a record written by an earlier process
InitialEmbedding == <<1, 0>>

\* the metadata argument of addImage: with a comprehensive description, or without
Metas == {"comprehensive", "none"}

\* a record of the map; NoItem where the map has no entry. The map is held
\* by id: its iteration order is taken to be the order of the ids.
IndexedItem(id, path, embedding) == [id |-> id, path |-> path, embedding |-> embedding]
NoItem == [id |-> None, path |-> None, embedding |-> <<>>]
EmptyMap == [i \in Ids |-> NoItem]

\* Map.has / Map.set / Map.delete / Map.size
Has(m, id) == m[id] # NoItem
MapSet(m, item) == [m EXCEPT ![item.id] = item]
MapDelete(m, id) == [m EXCEPT ![id] = NoItem]
Size(m) == Cardinality({i \in Ids : Has(m, i)})

\* a file: absent, a complete JSON document of the items, or a part of one
Absent == [state |-> "absent", items |-> EmptyMap]
Partial == [state |-> "partial", items |-> EmptyMap]
Document(m) == [state |-> "complete", items |-> m]

\* the temporary file a save left behind when it did not reach its rename:
\* the next save overwrites it and nothing else reads it, so its content is
\* not kept
Leftover(file) ==
  IF file.state = "absent" THEN Absent ELSE [state |-> "leftover", items |-> EmptyMap]

\* OpenAIEmbeddingService.loadExistingData: a missing file and a file that
\* does not parse both leave the map empty
loadExistingData(file) == IF file.state = "complete" THEN file.items ELSE EmptyMap

\* the addImage calls suspended at an await, counted by id and by the remote
\* call they wait for
NoAdds == [i \in Ids |-> [describe |-> 0, embed |-> 0]]

NotSaving == [pc |-> "idle", by |-> "none", id |-> None, left |-> 0]

\* the searchByText call suspended at its await, with its k
NoSearch == [pc |-> "idle", k |-> 0]

\* what the last step handed back to a caller, if it completed a call
Returned(op, id, outcome, why, results) ==
  [op |-> op, id |-> id, outcome |-> outcome, why |-> why, results |-> results]
NoReturn == Returned("none", None, "none", "none", <<>>)

\* the search-screenshots call: idle, or suspended at its await of
\* searchByText with the text results it has and its limit
NoEntry == [pc |-> "idle", textResults |-> <<>>, limit |-> 0]

\* the reply of an IPC handler: what it returned or that it raised, with
\* the semantic and the text results it was made from
Reply(op, outcome, why, results, semantic, text) ==
  [op |-> op, outcome |-> outcome, why |-> why, results |-> results,
   semantic |-> semantic, text |-> text]
NoReply == Reply("none", "none", "none", <<>>, <<>>, <<>>)

\* the tables beside a store that is looked at on its own: every artifact
\* has its row, none has been analysed
\* the batchProcess call: not made
NoBatch == [pc |-> "idle", screenshots |-> <<>>, i |-> 0, status |-> <<>>, results |-> {}]

\* created_at of the rows an earlier process wrote: ids are handed out in
\* the order of creation
CreatedAt(id) == id

\* no screenshot is in the folder or has the tag
NoLinks == [folder |-> {}, tag |-> {}]

\* no text heuristic has been called
NoLocal == [fn |-> "none"]

AppInit ==
  /\ screenshots = [i \in Ids |-> PathOf(i)]
  /\ metadata = [i \in Ids |-> 0]
  /\ entry = NoEntry
  /\ replied = NoReply
  /\ created = [i \in Ids |-> CreatedAt(i)]
  /\ batch = NoBatch
  /\ links = NoLinks
  /\ local = NoLocal

\* the index an earlier process left: records of some of the ids
StoreInit ==
  /\ \E S \in SUBSET Ids :
       /\ indexFile = (IF S = {} THEN Absent
                       ELSE Document([i \in Ids |->
                              IF i \in S THEN IndexedItem(i, PathOf(i), InitialEmbedding)
                              ELSE NoItem]))
       /\ items = loadExistingData(indexFile)
  /\ tmpFile = Absent
  /\ files = Paths
  /\ adds = NoAdds
  /\ search = NoSearch
  /\ saving = NotSaving
  /\ returned = NoReturn

\* save() runs without an await: once it has begun nothing but its own steps
\* (or the end of the process) happens
Idle == saving.pc = "idle"

RECURSIVE Suspended(_)
Suspended(id) ==
  IF id = 0 THEN 0 ELSE adds[id].describe + adds[id].embed + Suspended(id - 1)

InFlight == Suspended(NumIds) + (IF saving.by = "addImage" THEN 1 ELSE 0)

\* save() up to the start of writeFileSync(tempPath, ...): the final path is
\* not touched, the temporary file is being written
SaveBegin_InPlace == [index |-> Partial, tmp |-> tmpFile]

SaveBegin == [index |-> indexFile, tmp |-> Partial]

\* this.items.has(id) at the head of addImage
AlreadyIndexed_Never(id) == FALSE

AlreadyIndexed(id) == Has(items, id)

\* addImage up to its first await on a remote call.
\* generateComprehensiveDescription uses the caller's description when there
\* is one; else it reads the image (a failing read gives the metadata
\* fallback text) and asks the remote API. createEmbedding then posts the text.
AddImage(id, meta, readable) ==
  /\ Idle
  /\ IF AlreadyIndexed(id)
       THEN /\ returned' = Returned("addImage", id, "returned", "skipped", <<>>)
            /\ UNCHANGED adds
       ELSE /\ InFlight < MaxAdds
            /\ returned' = NoReturn
            /\ adds' = IF meta = "none" /\ readable
                         THEN [adds EXCEPT ![id].describe = @ + 1]
                         ELSE [adds EXCEPT ![id].embed = @ + 1]
  /\ UNCHANGED <<items, indexFile, tmpFile, files, search, saving>>
  /\ UNCHANGED <<pipelineVars, appVars>>

\* the remote description returns or throws: the text to embed is the
\* description or the metadata fallback, never empty; createEmbedding posts it
DescriptionForAddReturns(id, resp) ==
  /\ Idle
  /\ adds[id].describe > 0
  /\ adds' = [adds EXCEPT ![id].describe = @ - 1, ![id].embed = @ + 1]
  /\ returned' = NoReturn
  /\ UNCHANGED <<items, indexFile, tmpFile, files, search, saving>>
  /\ UNCHANGED <<pipelineVars, appVars>>

\* OpenAIEmbeddingService.createEmbedding on the endpoint's answer: the
\* vector, or an error for a failed call and for an empty embedding
createEmbedding(resp) ==
  IF resp.kind = "ok" /\ Len(resp.embedding) > 0
    THEN [threw |-> FALSE, embedding |-> resp.embedding]
    ELSE [threw |-> TRUE, embedding |-> <<>>]

\* the imagePath the callers of addImage pass: the filepath of the row of the
\* screenshot, which a rename updates before the call
CallerPath(id) == IF screenshots[id] # None THEN screenshots[id] ELSE PathOf(id)

\* addImage once createEmbedding has settled: a failure is rethrown; a vector
\* is stored under the id and save() begins
AddAfterEmbedding_StoreAnyway(id, resp) ==
  /\ items' = MapSet(items, IndexedItem(id, CallerPath(id), createEmbedding(resp).embedding))
  /\ indexFile' = SaveBegin.index
  /\ tmpFile' = SaveBegin.tmp
  /\ saving' = [pc |-> "writing", by |-> "addImage", id |-> id, left |-> 0]
  /\ returned' = NoReturn

AddAfterEmbedding(id, resp) ==
  LET e == createEmbedding(resp)
  IN IF e.threw \/ Len(e.embedding) = 0
       THEN /\ returned' = Returned("addImage", id, "raised", "embedding", <<>>)
            /\ UNCHANGED <<items, indexFile, tmpFile, saving>>
       ELSE /\ items' = MapSet(items, IndexedItem(id, CallerPath(id), e.embedding))
            /\ indexFile' = SaveBegin.index
            /\ tmpFile' = SaveBegin.tmp
            /\ saving' = [pc |-> "writing", by |-> "addImage", id |-> id, left |-> 0]
            /\ returned' = NoReturn

EmbeddingForAddReturns(id, resp) ==
  /\ Idle
  /\ adds[id].embed > 0
  /\ adds' = [adds EXCEPT ![id].embed = @ - 1]
  /\ AddAfterEmbedding(id, resp)
  /\ UNCHANGED <<files, search>>
  /\ UNCHANGED <<pipelineVars, appVars>>

\* writeFileSync(tempPath, ...) completes: the temporary file is the whole document
WriteTempCompletes ==
  /\ saving.pc = "writing"
  /\ tmpFile' = Document(items)
  /\ saving' = [saving EXCEPT !.pc = "written"]
  /\ returned' = NoReturn
  /\ UNCHANGED <<items, indexFile, files, adds, search>>
  /\ UNCHANGED <<pipelineVars, appVars>>

\* what the caller of save() hands back once save() has returned or thrown:
\* addImage returns or rethrows, purgeStaleEmbeddings logs the error and returns
AfterSave(threw) ==
  IF saving.by = "addImage"
    THEN Returned("addImage", saving.id, IF threw THEN "raised" ELSE "returned",
                  IF threw THEN "save" ELSE "indexed", <<>>)
    ELSE Returned("purgeStaleEmbeddings", None, "returned",
                  IF threw THEN "save-failed" ELSE "purged", <<>>)

\* renameSync(tempPath, metadataPath), and the return to the caller of save():
\* a purge that has save() calls left makes the next one
RenameTemp ==
  /\ saving.pc = "written"
  /\ IF saving.left > 0
       THEN /\ indexFile' = SaveBegin.index
            /\ tmpFile' = SaveBegin.tmp
            /\ saving' = [saving EXCEPT !.pc = "writing", !.left = @ - 1]
            /\ returned' = NoReturn
       ELSE /\ indexFile' = tmpFile
            /\ tmpFile' = Absent
            /\ saving' = NotSaving
            /\ returned' = AfterSave(FALSE)
  /\ UNCHANGED <<items, files, adds, search>>
  /\ UNCHANGED <<pipelineVars, appVars>>

\* writeFileSync or renameSync throws: save() rethrows
SaveThrows ==
  /\ saving.pc \in {"writing", "written"}
  /\ saving' = NotSaving
  /\ returned' = AfterSave(TRUE)
  /\ tmpFile' = Leftover(tmpFile)
  /\ UNCHANGED <<items, indexFile, files, adds, search>>
  /\ UNCHANGED <<pipelineVars, appVars>>

\* OpenAIEmbeddingService.removeItem
RemoveItem(id) ==
  /\ Idle
  /\ Has(items, id)
  /\ items' = MapDelete(items, id)
  /\ returned' = Returned("removeItem", id, "returned", "removed", <<>>)
  /\ UNCHANGED <<indexFile, tmpFile, files, adds, search, saving>>
  /\ UNCHANGED <<pipelineVars, appVars>>

\* item.path && !fs.existsSync(item.path)
Stale(item) == item.path # None /\ item.path \notin files

\* the number of save() calls of one purge
PurgeSaves_PerRemoval(removedCount) == removedCount

PurgeSaves(removedCount) == IF removedCount > 0 THEN 1 ELSE 0

\* OpenAIEmbeddingService.purgeStaleEmbeddings, up to the end of its loop and
\* into save()
PurgeStaleEmbeddings ==
  /\ Idle
  /\ LET kept == [i \in Ids |-> IF Has(items, i) /\ Stale(items[i]) THEN NoItem ELSE items[i]]
         removedCount == Size(items) - Size(kept)
     IN /\ items' = kept
        /\ IF PurgeSaves(removedCount) > 0
             THEN /\ indexFile' = SaveBegin.index
                  /\ tmpFile' = SaveBegin.tmp
                  /\ saving' = [pc |-> "writing", by |-> "purge", id |-> None,
                                left |-> PurgeSaves(removedCount) - 1]
                  /\ returned' = NoReturn
             ELSE /\ returned' = Returned("purgeStaleEmbeddings", None, "returned",
                                          "nothing-stale", <<>>)
                  /\ UNCHANGED <<indexFile, tmpFile, saving>>
  /\ UNCHANGED <<files, adds, search>>
  /\ UNCHANGED <<pipelineVars, appVars>>

\* a backing file is deleted (FileSystemManager.deleteScreenshotFiles, or the user)
DeleteFile(p) ==
  /\ Idle
  /\ p \in files
  /\ files' = files \ {p}
  /\ returned' = NoReturn
  /\ UNCHANGED <<items, indexFile, tmpFile, adds, search, saving>>
  /\ UNCHANGED <<pipelineVars, appVars>>

\* the process ends at any point, also inside save(); the next process
\* constructs the store from the index file
Restart ==
  /\ items' = loadExistingData(indexFile)
  /\ adds' = NoAdds
  /\ search' = NoSearch
  /\ saving' = NotSaving
  /\ returned' = Returned("restart", None, saving.pc, "none", <<>>)
  /\ tmpFile' = Leftover(tmpFile)
  /\ UNCHANGED <<indexFile, files>>
  /\ UNCHANGED <<pipelineVars, appVars>>

StoreNext ==
  \/ \E id \in Ids, meta \in Metas, readable \in BOOLEAN : AddImage(id, meta, readable)
  \/ \E id \in Ids, resp \in StringResponses : DescriptionForAddReturns(id, resp)
  \/ \E id \in Ids, resp \in EmbedResponses : EmbeddingForAddReturns(id, resp)
  \/ WriteTempCompletes
  \/ RenameTemp
  \/ SaveThrows
  \/ \E id \in Ids : RemoveItem(id)
  \/ PurgeStaleEmbeddings
  \/ \E p \in Paths : DeleteFile(p)
  \/ Restart

\* the answers of the endpoint to addImage when its vectors are not all of
\* one dimension (the model behind the endpoint, or the index on disk, is
\* of another version)
IndexResponses == EmbedResponses \cup { [kind |-> "ok", embedding |-> <<1>>] }

\* indexing alone, as the callers do it (they pass a comprehensive
\* description), with an endpoint of more than one dimension
IndexNext ==
  \/ \E id \in Ids, readable \in BOOLEAN : AddImage(id, "comprehensive", readable)
  \/ \E id \in Ids, resp \in IndexResponses : EmbeddingForAddReturns(id, resp)
  \/ WriteTempCompletes
  \/ RenameTemp
  \/ \E id \in Ids : RemoveItem(id)

\* ------------------------------------------------ searchByText
\* the vectors of the records an earlier process indexed
StoredVectors == { <<1, 0>>, <<0, 1>>, <<1, 1>> }

\* the search queries: the empty text and a text
Queries == {"", "query"}

RECURSIVE Dot(_, _)
Dot(a, b) == IF a = <<>> THEN 0 ELSE Head(a) * Head(b) + Dot(Tail(a), Tail(b))

\* OpenAIEmbeddingService.cosineSimilarity: throws for vectors of unequal
\* length. The score dot/(sqrt(normA)*sqrt(normB)) is held as its square, the
\* fraction num/den; no component is negative, so squares order as scores do.
cosineSimilarity(a, b) ==
  IF Len(a) # Len(b)
    THEN [threw |-> TRUE, num |-> 0, den |-> 1]
    ELSE [threw |-> FALSE, num |-> Dot(a, b) * Dot(a, b), den |-> Dot(a, a) * Dot(b, b)]

\* b.score - a.score <= 0: a does not come after b
NotBelow(a, b) == a.num * b.den >= b.num * a.den

\* the loop over this.items: the results pushed for the ids up to n
RECURSIVE Scored(_, _)
Scored(queryEmbedding, n) ==
  IF n = 0 THEN <<>>
  ELSE IF Has(items, n)
    THEN Append(Scored(queryEmbedding, n - 1),
                [id |-> n, score |-> cosineSimilarity(queryEmbedding, items[n].embedding)])
    ELSE Scored(queryEmbedding, n - 1)

\* results.sort((a, b) => b.score - a.score): descending and stable
RECURSIVE InsertByScore(_, _)
InsertByScore(sorted, e) ==
  IF sorted = <<>> THEN <<e>>
  ELSE IF NotBelow(Head(sorted).score, e.score)
    THEN <<Head(sorted)>> \o InsertByScore(Tail(sorted), e)
    ELSE <<e>> \o sorted

RECURSIVE SortByScore(_)
SortByScore(results) ==
  IF results = <<>> THEN <<>>
  ELSE InsertByScore(SortByScore(SubSeq(results, 1, Len(results) - 1)),
                     results[Len(results)])

\* results.slice(0, k) for k >= 0
Slice_Whole(results, k) == results

Slice(results, k) == SubSeq(results, 1, IF k < Len(results) THEN k ELSE Len(results))

\* the catch block of searchByText
SearchCatch(why) == Returned("searchByText", None, "returned", why, <<>>)

\* searchByText once the query's embedding has settled
SearchAfterEmbedding(resp, k) ==
  LET e == createEmbedding(resp)
      results == Scored(e.embedding, NumIds)
  IN IF e.threw THEN SearchCatch("embed-failed")
     ELSE IF \E i \in 1..Len(results) : results[i].score.threw THEN SearchCatch("mismatch")
     ELSE Returned("searchByText", None, "returned", "ranked",
                   Slice(SortByScore(results), k))

\* searchByText up to its await: an empty store answers at once; an empty
\* query makes createEmbedding throw before it calls the endpoint
SearchByText(query, k) ==
  /\ Idle
  /\ search.pc = "idle"
  /\ IF Size(items) = 0
       THEN /\ returned' = Returned("searchByText", None, "returned", "empty-store", <<>>)
            /\ UNCHANGED search
       ELSE IF Len(Trim(query)) = 0
         THEN /\ returned' = SearchCatch("embed-failed")
              /\ UNCHANGED search
         ELSE /\ returned' = NoReturn
              /\ search' = [pc |-> "embed", k |-> k]
  /\ UNCHANGED <<items, indexFile, tmpFile, files, adds, saving>>
  /\ UNCHANGED <<pipelineVars, appVars>>

QueryEmbeddingReturns(resp) ==
  /\ Idle
  /\ search.pc = "embed"
  /\ search' = NoSearch
  /\ returned' = SearchAfterEmbedding(resp, search.k)
  /\ UNCHANGED <<items, indexFile, tmpFile, files, adds, saving>>
  /\ UNCHANGED <<pipelineVars, appVars>>

\* the index an earlier process left, with vectors of one dimension
SearchInit ==
  /\ PipelineInit
  /\ \E m \in [Ids -> {<<>>} \cup StoredVectors] :
       /\ items = [i \in Ids |-> IF m[i] = <<>> THEN NoItem
                                 ELSE IndexedItem(i, PathOf(i), m[i])]
       /\ indexFile = (IF items = EmptyMap THEN Absent ELSE Document(items))
  /\ tmpFile = Absent
  /\ files = Paths
  /\ adds = NoAdds
  /\ search = NoSearch
  /\ saving = NotSaving
  /\ returned = NoReturn
  /\ AppInit

SearchNext ==
  \/ \E query \in Queries, k \in 0..MaxK : SearchByText(query, k)
  \/ \E resp \in QueryResponses : QueryEmbeddingReturns(resp)
  \/ \E id \in Ids : RemoveItem(id)

\* ------------------------------------------------ the search entry point
\* the screenshots that have a row
Existing == {i \in Ids : screenshots[i] # None}

\* an entry of a result list: a semantic hit carries its cosine score, a row
\* of the text search carries row.rank, a column the query does not select
TextEntry(id) == [id |-> id, score |-> Unset, via |-> "text"]
SemanticEntry(result) == [id |-> result.id, score |-> result.score, via |-> "semantic"]

\* the rows the LEFT JOIN with screenshot_metadata gives for one screenshot:
\* one without metadata, else one per metadata row (SELECT DISTINCT merges
\* rows of equal content only; the rows of two analyses are taken to differ)
TextRows(id) == IF metadata[id] = 0 THEN 1 ELSE metadata[id]

Repeat(e, n) == [i \in 1..n |-> e]

\* the rows for the matching screenshots among the ids up to n, ORDER BY
\* s.created_at DESC: ids are handed out in the order of creation
RECURSIVE RowsUpTo(_, _)
RowsUpTo(matching, n) ==
  IF n = 0 THEN <<>>
  ELSE (IF n \in matching THEN Repeat(TextEntry(n), TextRows(n)) ELSE <<>>)
         \o RowsUpTo(matching, n - 1)

\* DatabaseManager.searchScreenshots: the matching rows, LIMIT limit
searchScreenshots(matching, limit) == Slice(RowsUpTo(matching, NumIds), limit)

\* the loop over semanticResults: resultMap.set for every hit whose
\* screenshot row exists
RECURSIVE SemanticEntries(_)
SemanticEntries(semanticResults) ==
  IF semanticResults = <<>> THEN <<>>
  ELSE (IF Head(semanticResults).id \in Existing
          THEN <<SemanticEntry(Head(semanticResults))>> ELSE <<>>)
         \o SemanticEntries(Tail(semanticResults))

\* resultMap.has(id), the map held as the sequence of its values
MapHas(resultMap, id) == \E i \in 1..Len(resultMap) : resultMap[i].id = id

\* the loop over textResults: a row is set only if its id is not yet a key
AddAbsent_Replace(resultMap, textResults) ==
  SelectSeq(resultMap, LAMBDA e : ~MapHas(textResults, e.id)) \o textResults

RECURSIVE AddAbsent(_, _)
AddAbsent(resultMap, textResults) ==
  IF textResults = <<>> THEN resultMap
  ELSE AddAbsent(IF MapHas(resultMap, Head(textResults).id) THEN resultMap
                 ELSE Append(resultMap, Head(textResults)),
                 Tail(textResults))

\* Array.from(resultMap.values()).slice(0, limit)
Merged_TextFirst(semanticResults, textResults, limit) ==
  Slice(AddAbsent(textResults, SemanticEntries(semanticResults)), limit)

Merged(semanticResults, textResults, limit) ==
  Slice(AddAbsent(SemanticEntries(semanticResults), textResults), limit)

\* the handler's reply when no error reached its catch blocks and the
\* merge was made
MergedReply(semanticResults, textResults, limit) ==
  [op |-> "search-screenshots", outcome |-> "returned", why |-> "merged",
   results |-> Merged(semanticResults, textResults, limit),
   semantic |-> semanticResults, text |-> textResults, limit |-> limit]

\* the inner catch: the error is logged and the text results are returned
SemanticCatch_Rethrow(semanticResults, textResults) ==
  Reply("search-screenshots", "raised", "semantic-failed",
        <<>>, semanticResults, textResults)

SemanticCatch(semanticResults, textResults) ==
  Reply("search-screenshots", "returned", "semantic-failed",
        textResults, semanticResults, textResults)

\* what a search-screenshots call meets: the text search throws, or it
\* answers and there is no embedding service, or there is one
Services == {"text-search-throws", "none", "embedding"}

\* the handler writes nothing, so its calls do not depend on each other:
\* one call is followed up to its reply, and the next one starts from a
\* state that another IPC call has left
OneSearchFollowed == entry.pc = "idle" /\ replied.op # "search-screenshots"

\* search-screenshots up to its await of the query's embedding. The text
\* search runs first (an error of it reaches the outer catch, which returns
\* []); without an embedding service its rows are the reply; searchByText
\* answers at once for an empty store and for an empty query. embeddingService
\* is null when its initialisation failed.
SearchScreenshots(query, limit, matching, service) ==
  /\ Idle
  /\ OneSearchFollowed
  /\ search.pc = "idle"
  /\ matching \subseteq Existing
  /\ query = "" => matching = Existing
  /\ LET textResults == searchScreenshots(matching, limit)
     IN IF service = "text-search-throws"
          THEN /\ replied' = Reply("search-screenshots", "returned", "text-failed",
                                   <<>>, <<>>, <<>>)
               /\ UNCHANGED <<entry, search, returned>>
        ELSE IF service = "none"
          THEN /\ replied' = Reply("search-screenshots", "returned", "text-only",
                                   textResults, <<>>, textResults)
               /\ UNCHANGED <<entry, search, returned>>
        ELSE IF Size(items) = 0
          THEN /\ replied' = MergedReply(<<>>, textResults, limit)
               /\ returned' = Returned("searchByText", None, "returned", "empty-store", <<>>)
               /\ UNCHANGED <<entry, search>>
        ELSE IF Len(Trim(query)) = 0
          THEN /\ replied' = MergedReply(<<>>, textResults, limit)
               /\ returned' = SearchCatch("embed-failed")
               /\ UNCHANGED <<entry, search>>
        ELSE /\ entry' = [pc |-> "semantic", textResults |-> textResults, limit |-> limit]
             /\ search' = [pc |-> "embed", k |-> limit]
             /\ returned' = NoReturn
             /\ replied' = NoReply
  /\ UNCHANGED <<items, indexFile, tmpFile, files, adds, saving>>
  /\ UNCHANGED <<pipelineVars, screenshots, metadata, created, batch, links, local>>

\* search-screenshots once searchByText has settled: the merge; an error of
\* a database lookup made for a semantic hit reaches the inner catch
SemanticReturns(resp, lookupFails) ==
  /\ Idle
  /\ entry.pc = "semantic"
  /\ LET semantic == SearchAfterEmbedding(resp, entry.limit)
     IN /\ returned' = semantic
        /\ replied' = IF lookupFails /\ semantic.results # <<>>
                        THEN SemanticCatch(semantic.results, entry.textResults)
                        ELSE MergedReply(semantic.results, entry.textResults, entry.limit)
  /\ entry' = NoEntry
  /\ search' = NoSearch
  /\ UNCHANGED <<items, indexFile, tmpFile, files, adds, saving>>
  /\ UNCHANGED <<pipelineVars, screenshots, metadata, created, batch, links, local>>

\* delete-screenshot: the files, the record of the embedding store and the
\* row (its metadata, tag and folder rows with it, ON DELETE CASCADE) are
\* removed
DeleteScreenshot(id) ==
  /\ Idle
  /\ IF id \in Existing
       THEN /\ files' = files \ {screenshots[id]}
            /\ items' = MapDelete(items, id)
            /\ returned' = Returned("removeItem", id, "returned", "removed", <<>>)
            /\ screenshots' = [screenshots EXCEPT ![id] = None]
            /\ metadata' = [metadata EXCEPT ![id] = 0]
            /\ created' = [created EXCEPT ![id] = None]
            /\ links' = [folder |-> links.folder \ {id}, tag |-> links.tag \ {id}]
            /\ replied' = Reply("delete-screenshot", "returned", "deleted", <<>>, <<>>, <<>>)
       ELSE /\ replied' = Reply("delete-screenshot", "returned", "not-found", <<>>, <<>>, <<>>)
            /\ UNCHANGED <<files, items, returned, screenshots, metadata, created, links>>
  /\ UNCHANGED <<indexFile, tmpFile, adds, search, saving, entry, batch, local>>
  /\ UNCHANGED pipelineVars

\* the vectors of the records when the entry point is looked at
EntryVectors == { <<1, 0>>, <<0, 1>> }

\* the tables and the index an earlier process left: some artifacts have a
\* row and a file, never analysed or analysed MaxAnalyses times; records may
\* be left of artifacts that have no row
EntryInit ==
  /\ PipelineInit
  /\ \E S \in SUBSET Ids, n \in [Ids -> {0, MaxAnalyses}] :
       /\ screenshots = [i \in Ids |-> IF i \in S THEN PathOf(i) ELSE None]
       /\ metadata = [i \in Ids |-> IF i \in S THEN n[i] ELSE 0]
       /\ \A i \in Ids \ S : n[i] = 0
       /\ created = [i \in Ids |-> IF i \in S THEN CreatedAt(i) ELSE None]
       /\ files = {PathOf(i) : i \in S}
  /\ batch = NoBatch
  /\ links = NoLinks
  /\ local = NoLocal
  /\ \E m \in [Ids -> {<<>>} \cup EntryVectors] :
       /\ items = [i \in Ids |-> IF m[i] = <<>> THEN NoItem
                                 ELSE IndexedItem(i, PathOf(i), m[i])]
       /\ indexFile = (IF items = EmptyMap THEN Absent ELSE Document(items))
  /\ tmpFile = Absent
  /\ adds = NoAdds
  /\ search = NoSearch
  /\ saving = NotSaving
  /\ returned = NoReturn
  /\ entry = NoEntry
  /\ replied = NoReply

EntryNext ==
  \/ \E query \in Queries, limit \in 0..MaxK, matching \in SUBSET Ids,
        service \in Services :
       SearchScreenshots(query, limit, matching, service)
  \/ \E resp \in QueryResponses, lookupFails \in BOOLEAN : SemanticReturns(resp, lookupFails)
  \/ \E id \in Ids : DeleteScreenshot(id)

\* ------------------------------------------------ smart folders
\* daysAgo * 24 * 60 * 60 * 1000
DayMs == 24 * 60 * 60 * 1000
HourMs == 60 * 60 * 1000

\* Date.now() when a folder is evaluated, and the creation times of the rows:
\* eight days, exactly seven days and one hour before
FolderNow == 9 * DayMs
FolderInstants == {FolderNow - 8 * DayMs, FolderNow - 7 * DayMs, FolderNow - HourMs}

\* folder.filter_rules: the type, for 'recent' the days and for 'tag' the
\* tagId (0: not given)
FolderRules ==
  {[type |-> t, days |-> 0, tagId |-> 0] : t \in {"all", "unknown"}}
    \cup {[type |-> "recent", days |-> d, tagId |-> 0] : d \in {0, 1, 7}}
    \cup {[type |-> "tag", days |-> 0, tagId |-> t] : t \in {0, 1}}

\* DatabaseManager.getScreenshotsForSmartFolder for these rule types, as the
\* set of the ids of the rows it returns
getScreenshotsForSmartFolder_DefaultAll(rules, now) ==
  IF rules.type = "tag" THEN links.tag \cap Existing ELSE Existing

getScreenshotsForSmartFolder(rules, now) ==
  CASE rules.type = "all" -> Existing
    [] rules.type = "recent" ->
         LET daysAgo == IF rules.days # 0 THEN rules.days ELSE 7
             since == now - (daysAgo * DayMs)
         IN {i \in Existing : created[i] > since}
    [] rules.type = "tag" ->
         IF rules.tagId = 0 THEN {} ELSE {i \in Existing : i \in links.tag}
    [] OTHER -> {}

\* the evaluation of a smart folder for get-folder-screenshots
EvaluateSmartFolder(rules, now) ==
  /\ Idle
  /\ replied' = [op |-> "smart-folder", outcome |-> "returned", rules |-> rules,
                 now |-> now, results |-> getScreenshotsForSmartFolder(rules, now)]
  /\ UNCHANGED <<storeVars, pipelineVars, screenshots, metadata, entry, created, batch, links, local>>

\* the rows an earlier process wrote, of any of the creation times
FolderInit ==
  /\ PipelineInit
  /\ StoreInit
  /\ indexFile = Absent
  /\ \E t \in [Ids -> {None} \cup FolderInstants] :
       /\ created = t
       /\ screenshots = [i \in Ids |-> IF t[i] = None THEN None ELSE PathOf(i)]
  /\ metadata = [i \in Ids |-> 0]
  /\ entry = NoEntry
  /\ replied = NoReply
  /\ batch = NoBatch
  /\ links = NoLinks
  /\ local = NoLocal

\* add-screenshot-to-folder and tagScreenshot: INSERT OR IGNORE of a row
AddScreenshotToFolder(id) ==
  /\ Idle
  /\ id \in Existing
  /\ links' = [links EXCEPT !.folder = @ \cup {id}]
  /\ replied' = Reply("add-screenshot-to-folder", "returned",
                      IF id \in links.folder THEN "ignored" ELSE "added", <<>>, <<>>, <<>>)
  /\ UNCHANGED <<storeVars, pipelineVars, screenshots, metadata, entry, created, batch, local>>

TagScreenshot(id) ==
  /\ Idle
  /\ id \in Existing
  /\ links' = [links EXCEPT !.tag = @ \cup {id}]
  /\ replied' = Reply("tag-screenshot", "returned",
                      IF id \in links.tag THEN "ignored" ELSE "added", <<>>, <<>>, <<>>)
  /\ UNCHANGED <<storeVars, pipelineVars, screenshots, metadata, entry, created, batch, local>>

FolderNext ==
  \/ \E rules \in FolderRules : EvaluateSmartFolder(rules, FolderNow)
  \/ \E id \in Ids : DeleteScreenshot(id)
  \/ \E id \in Ids : AddScreenshotToFolder(id)
  \/ \E id \in Ids : TagScreenshot(id)

Init == PipelineInit /\ StoreInit /\ AppInit

\* ------------------------------------------------ renaming
\* the filepath renameScreenshotFile gives the file of a screenshot
RenamedPath(id) == NumIds + id

\* createEmbeddingsForExistingScreenshots for one screenshot whose filename
\* is a default one and whose metadata has a title: the file is renamed and
\* the row gets the new filename and filepath. The addImage call that
\* follows is AddImage.
RenameScreenshot(id) ==
  /\ Idle
  /\ screenshots[id] = PathOf(id)
  /\ metadata[id] > 0
  /\ screenshots[id] \in files
  /\ RenamedPath(id) \notin files
  /\ files' = (files \ {screenshots[id]}) \cup {RenamedPath(id)}
  /\ screenshots' = [screenshots EXCEPT ![id] = RenamedPath(id)]
  /\ returned' = NoReturn
  /\ UNCHANGED <<items, indexFile, tmpFile, adds, search, saving>>
  /\ UNCHANGED <<pipelineVars, metadata, entry, replied, created, batch, links, local>>

\* every screenshot has been analysed once
RenameInit ==
  /\ PipelineInit
  /\ StoreInit
  /\ screenshots = [i \in Ids |-> PathOf(i)]
  /\ metadata = [i \in Ids |-> 1]
  /\ entry = NoEntry
  /\ replied = NoReply
  /\ created = [i \in Ids |-> CreatedAt(i)]
  /\ batch = NoBatch
  /\ links = NoLinks
  /\ local = NoLocal

RenameNext ==
  \/ \E id \in Ids, readable \in BOOLEAN : AddImage(id, "comprehensive", readable)
  \/ \E id \in Ids, resp \in EmbedResponses : EmbeddingForAddReturns(id, resp)
  \/ WriteTempCompletes
  \/ RenameTemp
  \/ PurgeStaleEmbeddings
  \/ \E id \in Ids : RenameScreenshot(id)

\* ------------------------------------------------ keyword extraction
\* An OCR text is held as the sequence of its pieces: a piece is a run of
\* word characters, a blank or a punctuation mark.
MaxPieces == 4

WordPieces == {"Code", "code", "data", "with", "the"}
Blanks == {" "}
Marks == {","}
Pieces == WordPieces \cup Blanks \cup Marks

\* eleven keywords, one more than extractKeywords returns
ManyWords ==
  <<"alpha", " ", "bravo", " ", "charlie", " ", "delta", " ", "echo1", " ",
    "foxtrot", " ", "golf", " ", "hotel", " ", "india", " ", "juliet", " ",
    "kilo", " ">>

PieceSeqs(n) == UNION {[1..m -> Pieces] : m \in 0..n}

\* the texts extractKeywords is applied to
KeywordTexts == {prefix \o t : prefix \in {<<>>, ManyWords}, t \in PieceSeqs(MaxPieces)}

\* String.prototype.toLowerCase on the pieces of the model
toLowerCase(piece) == IF piece = "Code" THEN "code" ELSE piece

\* .replace(/[^\w\s]/g, ' ') turns a mark into a blank; .split(/\s+/) cuts
\* at every run of blanks, giving an empty word before a leading run and
\* after a trailing one
RECURSIVE SplitFrom(_, _, _, _)
SplitFrom(pieces, cur, inBlanks, acc) ==
  IF pieces = <<>> THEN Append(acc, cur)
  ELSE IF Head(pieces) \in Blanks \cup Marks
    THEN IF inBlanks THEN SplitFrom(Tail(pieces), cur, TRUE, acc)
         ELSE SplitFrom(Tail(pieces), "", TRUE, Append(acc, cur))
  ELSE SplitFrom(Tail(pieces), cur \o toLowerCase(Head(pieces)), FALSE, acc)

Split(ocrText) == SplitFrom(ocrText, "", FALSE, <<>>)

stopWords ==
  {"the", "and", "or", "but", "in", "on", "at", "to", "for", "of", "with", "by",
   "this", "that", "these", "those", "is", "are", "was", "were", "be", "been",
   "have", "has", "had", "do", "does", "did", "will", "would", "could", "should",
   "may", "might", "must", "can", "from", "up", "about", "into", "through", "during"}

\* AIProcessor.isStopWord
isStopWord_Never(word) == FALSE

isStopWord(word) == word \in stopWords

\* the words that are counted
Words(ocrText) ==
  SelectSeq(SelectSeq(Split(ocrText), LAMBDA word : Len(word) > 3),
            LAMBDA word : ~isStopWord(word))

\* wordCount: the entries of the Map, in the order of their insertion
RECURSIVE WordCount(_, _)
WordCount(words, entries) ==
  IF words = <<>> THEN entries
  ELSE LET w == Head(words)
           at == {i \in 1..Len(entries) : entries[i].word = w}
       IN WordCount(Tail(words),
                    IF at = {} THEN Append(entries, [word |-> w, count |-> 1])
                    ELSE [i \in 1..Len(entries) |->
                            IF i \in at THEN [entries[i] EXCEPT !.count = @ + 1]
                            ELSE entries[i]])

\* Array.prototype.sort with (a, b) => b[1] - a[1]: a stable sort, an entry
\* is placed behind the entries that are not smaller
InsertByCount(sorted, e) ==
  LET before == {i \in 1..Len(sorted) : sorted[i].count >= e.count}
      n == Cardinality(before)
  IN SubSeq(sorted, 1, n) \o <<e>> \o SubSeq(sorted, n + 1, Len(sorted))

RECURSIVE SortByCount(_)
SortByCount(entries) ==
  IF entries = <<>> THEN <<>>
  ELSE InsertByCount(SortByCount(SubSeq(entries, 1, Len(entries) - 1)),
                     entries[Len(entries)])

\* the number of keywords extractKeywords returns at most
MaxKeywords == 10

\* AIProcessor.extractKeywords
Keywords(ocrText) ==
  LET sorted == SortByCount(WordCount(Words(ocrText), <<>>))
      top == Slice(sorted, MaxKeywords)
  IN [i \in 1..Len(top) |-> top[i].word]

\* the pipeline's call of extractKeywords
ExtractKeywords ==
  /\ local.fn = "text"
  /\ local' = [fn |-> "extractKeywords", ocrText |-> local.ocrText,
               out |-> Keywords(local.ocrText)]
  /\ UNCHANGED <<storeVars, pipelineVars, screenshots, metadata, entry, replied,
                 created, batch, links>>

\* another text is recognised
NextText(ocrText) ==
  /\ local.fn = "extractKeywords"
  /\ local' = [fn |-> "text", ocrText |-> ocrText]
  /\ UNCHANGED <<storeVars, pipelineVars, screenshots, metadata, entry, replied,
                 created, batch, links>>

KeywordsInit ==
  /\ PipelineInit
  /\ StoreInit
  /\ indexFile = Absent
  /\ screenshots = [i \in Ids |-> PathOf(i)]
  /\ metadata = [i \in Ids |-> 0]
  /\ entry = NoEntry
  /\ replied = NoReply
  /\ created = [i \in Ids |-> CreatedAt(i)]
  /\ batch = NoBatch
  /\ links = NoLinks
  /\ \E ocrText \in KeywordTexts : local = [fn |-> "text", ocrText |-> ocrText]

KeywordsNext ==
  \/ ExtractKeywords
  \/ \E ocrText \in {<<>>, ManyWords} : NextText(ocrText)

\* ------------------------------------------------ the heuristic title
\* An OCR text is held as the sequence of its lines (the pieces between the
\* '\n'), a line as the sequence of its characters: "a" is a word
\* character, "#" a symbol, " " a blank and "." a full stop.
MaxLines == 2

Chars(c, n) == [i \in 1..n |-> c]

\* the lines of the texts generateTitle is applied to: lines of word
\* characters and of symbols around the lengths the code tests, a blank
\* line, and lines that cleanTitle changes
TitleLines ==
  {Chars(c, n) : c \in {"a", "#"}, n \in {2, 3, 50, 51}}
    \cup { <<" ">>, <<" ", "a", "a", "a", " ">>, <<"a", "#", " ", " ", "a">> }

\* the texts with a line that is not blank: the guard of the full analysis
\* has passed
TitleTexts ==
  {t \in UNION {[1..m -> TitleLines] : m \in 1..MaxLines} :
     \E i \in 1..Len(t) : t[i] # <<" ">>}

IsWordChar(c) == c = "a"
IsBlank(c) == c = " "

\* String.prototype.trim
RECURSIVE trimStart(_)
trimStart(line) ==
  IF line # <<>> /\ IsBlank(Head(line)) THEN trimStart(Tail(line)) ELSE line

RECURSIVE trimEnd(_)
trimEnd(line) ==
  IF line # <<>> /\ IsBlank(line[Len(line)])
    THEN trimEnd(SubSeq(line, 1, Len(line) - 1)) ELSE line

trim(line) == trimEnd(trimStart(line))

\* ocrText.split('\n').map(line => line.trim()).filter(line => line.length > 0)
Lines(ocrText) ==
  SelectSeq([i \in 1..Len(ocrText) |-> trim(ocrText[i])], LAMBDA line : Len(line) > 0)

\* /^[^\w\s]*$/.test(line)
SymbolOnly(line) == \A i \in 1..Len(line) : ~IsWordChar(line[i]) /\ ~IsBlank(line[i])

\* .replace(/\s+/g, ' ')
RECURSIVE NormalizeBlanks(_)
NormalizeBlanks(line) ==
  IF Len(line) < 2 THEN line
  ELSE IF IsBlank(line[1]) /\ IsBlank(line[2]) THEN NormalizeBlanks(Tail(line))
  ELSE <<line[1]>> \o NormalizeBlanks(Tail(line))

\* AIProcessor.cleanTitle
cleanTitle(title) ==
  trim(NormalizeBlanks(
         SelectSeq(title, LAMBDA c : IsWordChar(c) \/ IsBlank(c)
                                       \/ c \in {"-", ".", ",", "!", "?"})))

\* the length a line may have, and the length the first line is cut to
MaxTitle == 50
CutTitle == 47
MinTitle == 3

\* `Screenshot ${new Date().toLocaleDateString()}`
DatedTitle == <<"Screenshot", " ", "date">>

\* the loop over the lines: the first line that is not skipped and is not
\* too long, cleaned; <<>> stands for a loop that returned nothing
RECURSIVE FirstTitleLine(_)
FirstTitleLine(lines) ==
  IF lines = <<>> THEN <<>>
  ELSE IF Len(Head(lines)) < MinTitle \/ SymbolOnly(Head(lines))
    THEN FirstTitleLine(Tail(lines))
  ELSE IF Len(Head(lines)) <= MaxTitle THEN <<cleanTitle(Head(lines))>>
  ELSE FirstTitleLine(Tail(lines))

\* AIProcessor.generateTitleHeuristic
generateTitleHeuristic(ocrText) ==
  LET lines == Lines(ocrText)
  IN IF lines = <<>> THEN DatedTitle
     ELSE IF FirstTitleLine(lines) # <<>> THEN FirstTitleLine(lines)[1]
     ELSE LET firstLine == lines[1]
          IN cleanTitle(IF Len(firstLine) > MaxTitle
                          THEN SubSeq(firstLine, 1, CutTitle) \o <<".", ".", ".">>
                          ELSE firstLine)

\* titleResult.substring(0, 50) of the remote title of the model
RemoteTitle == <<"r", "e", "m", "o", "t", "e">>

\* AIProcessor.generateTitle once GenerateScreenshotTitle has settled
GenerateTitle(resp) ==
  /\ local.fn = "text"
  /\ local' = [fn |-> "generateTitle", ocrText |-> local.ocrText, resp |-> resp,
               out |-> IF generateTitle(resp, "") = "title:remote" THEN RemoteTitle
                       ELSE generateTitleHeuristic(local.ocrText)]
  /\ UNCHANGED <<storeVars, pipelineVars, screenshots, metadata, entry, replied,
                 created, batch, links>>

\* another text is recognised
NextTitleText(ocrText) ==
  /\ local.fn = "generateTitle"
  /\ local' = [fn |-> "text", ocrText |-> ocrText]
  /\ UNCHANGED <<storeVars, pipelineVars, screenshots, metadata, entry, replied,
                 created, batch, links>>

TitleInit ==
  /\ PipelineInit
  /\ StoreInit
  /\ indexFile = Absent
  /\ screenshots = [i \in Ids |-> PathOf(i)]
  /\ metadata = [i \in Ids |-> 0]
  /\ entry = NoEntry
  /\ replied = NoReply
  /\ created = [i \in Ids |-> CreatedAt(i)]
  /\ batch = NoBatch
  /\ links = NoLinks
  /\ \E ocrText \in TitleTexts : local = [fn |-> "text", ocrText |-> ocrText]

TitleNext ==
  \/ \E resp \in StringResponses : GenerateTitle(resp)
  \/ \E ocrText \in {<<Chars("a", 3)>>} : NextTitleText(ocrText)

\* ------------------------------------------------ deletion while indexing
\* processScreenshotWithAI reaches its addImage call: addMetadata has
\* succeeded, so the screenshot has its row
IndexAnalysed(id) ==
  /\ id \in Existing
  /\ AddImage(id, "comprehensive", TRUE)

DeleteNext ==
  \/ \E id \in Ids : IndexAnalysed(id)
  \/ \E id \in Ids, resp \in EmbedResponses : EmbeddingForAddReturns(id, resp)
  \/ WriteTempCompletes
  \/ RenameTemp
  \/ \E id \in Ids : DeleteScreenshot(id)

\* ------------------------------------------------ processScreenshotWithAI
\* the guard of addMetadata: analysisResult.ocr_text || analysisResult.ai_title
WorthSaving(result) == Truthy(result.ocr_text) \/ result.ai_title # Unset

\* DatabaseManager.addMetadata for the call c of processScreenshot that has
\* just resumed: a plain INSERT of one row, made when the pipeline returned
\* a result with a text or a title
AddMetadata(c) ==
  IF /\ runs[callers[c].run].pc = "fulfilled"
     /\ WorthSaving(runs[callers[c].run].result)
     /\ metadata[callers[c].id] < MaxAnalyses
    THEN [metadata EXCEPT ![callers[c].id] = @ + 1]
    ELSE metadata

\* processScreenshotWithAI resumes in the call that started the pipeline:
\* processScreenshot's finally block, then addMetadata. Its addImage call
\* is AddImage.
CreatorSaves(c) ==
  /\ callers[c].state = "awaiting"
  /\ callers[c].creator
  /\ Settled(callers[c].run)
  /\ processingQueue' = QueueAfterSettle(callers[c].id, runs[callers[c].run].pc)
  /\ callers' = [callers EXCEPT ![c].state = Outcome(callers[c].run),
                                ![c].result = runs[callers[c].run].result]
  /\ metadata' = AddMetadata(c)
  /\ UNCHANGED runs
  /\ UNCHANGED <<storeVars, screenshots, entry, replied, created, batch, links, local>>

\* processScreenshotWithAI resumes in a call that attached to the pipeline
WaiterSaves(c) ==
  /\ callers[c].state = "awaiting"
  /\ ~callers[c].creator
  /\ Settled(callers[c].run)
  /\ \A d \in Callers :
        (d < c /\ callers[d].run = callers[c].run) => callers[d].state # "awaiting"
  /\ callers' = [callers EXCEPT ![c].state = Outcome(callers[c].run),
                                ![c].result = runs[callers[c].run].result]
  /\ metadata' = AddMetadata(c)
  /\ UNCHANGED <<processingQueue, runs>>
  /\ UNCHANGED <<storeVars, screenshots, entry, replied, created, batch, links, local>>

AnalyseNext ==
  \/ \E c \in Callers, id \in Ids, readable \in BOOLEAN : ProcessScreenshot(c, id, readable)
  \/ \E r \in Callers, resp \in OcrResponses : OcrReturns(r, resp)
  \/ \E r \in Callers, resp \in StringResponses : TitleReturns(r, resp)
  \/ \E r \in Callers, resp \in StringResponses : DescriptionReturns(r, resp)
  \/ \E r \in Callers, resp \in ClassifyResponses : ClassificationReturns(r, resp)
  \/ \E r \in Callers, resp \in StringResponses : ComprehensiveReturns(r, resp)
  \/ \E c \in Callers : CreatorSaves(c)
  \/ \E c \in Callers : WaiterSaves(c)

\* ------------------------------------------------ batchProcess
\* const batchSize = 3
batchSize == 3

\* the lists handed to batchProcess: the rows of n different screenshots
BatchInputs == {[p \in 1..n |-> p] : n \in 0..MaxBatch}

\* the positions of the list that screenshots.slice(i, i + batchSize) takes
BatchOf(b, i) == {p \in 1..Len(b.screenshots) : i < p /\ p <= i + batchSize}

\* the positions whose processScreenshot call has been made and not settled
Outstanding(b) == {p \in 1..Len(b.screenshots) : b.status[p] = "pending"}

\* batch.map(...): processScreenshot is called for every screenshot of the
\* slice. To batchProcess a call is a promise that fulfils with a result or
\* rejects; SpecPipeline follows it inside.
StartBatch(b, i) ==
  [b EXCEPT !.pc = "batch", !.i = i,
            !.status = [p \in 1..Len(b.screenshots) |->
                          IF p \in BatchOf(b, i) THEN "pending" ELSE b.status[p]]]

\* results.set(screenshot.id, result) after the await, skipped by the catch
Collected_Always(results, id, fulfilled) == results \cup {id}

Collected(results, id, fulfilled) == IF fulfilled THEN results \cup {id} ELSE results

\* await Promise.allSettled(promises) resumes
AllSettled_One(b) == \E p \in BatchOf(b, b.i) : b.status[p] # "pending"

AllSettled(b) == \A p \in BatchOf(b, b.i) : b.status[p] # "pending"

\* the call of batchProcess, up to its first await
BatchProcess(list) ==
  /\ batch.pc = "idle"
  /\ batch' = LET b == [pc |-> "idle", screenshots |-> list, i |-> 0,
                        status |-> [p \in 1..Len(list) |-> "not-started"],
                        results |-> {}]
              IN IF Len(list) = 0 THEN [b EXCEPT !.pc = "returned"]
                 ELSE StartBatch(b, 0)
  /\ UNCHANGED <<storeVars, pipelineVars, screenshots, metadata, entry, replied, created, links, local>>

\* the pipeline of one screenshot settles; every call of the batch that
\* waits for this id's run resumes in its try or in its catch
ProcessScreenshotSettles(id, fulfilled) ==
  /\ batch.pc = "batch"
  /\ \E p \in Outstanding(batch) : batch.screenshots[p] = id
  /\ batch' = [batch EXCEPT
       !.status = [p \in 1..Len(batch.screenshots) |->
                     IF p \in Outstanding(batch) /\ batch.screenshots[p] = id
                       THEN (IF fulfilled THEN "fulfilled" ELSE "rejected")
                       ELSE batch.status[p]],
       !.results = Collected(batch.results, id, fulfilled)]
  /\ UNCHANGED <<storeVars, pipelineVars, screenshots, metadata, entry, replied, created, links, local>>

\* Promise.allSettled has resumed: the pause before the next batch, or the return
BatchSettled ==
  /\ batch.pc = "batch"
  /\ AllSettled(batch)
  /\ batch' = [batch EXCEPT !.pc = IF batch.i + batchSize < Len(batch.screenshots)
                                     THEN "pause" ELSE "returned"]
  /\ UNCHANGED <<storeVars, pipelineVars, screenshots, metadata, entry, replied, created, links, local>>

\* the timer of the pause fires: i += batchSize and the next slice starts
PauseEnds ==
  /\ batch.pc = "pause"
  /\ batch' = StartBatch(batch, batch.i + batchSize)
  /\ UNCHANGED <<storeVars, pipelineVars, screenshots, metadata, entry, replied, created, links, local>>

BatchInit == Init /\ indexFile = Absent

BatchNext ==
  \/ \E list \in BatchInputs : BatchProcess(list)
  \/ \E id \in 1..MaxBatch, fulfilled \in BOOLEAN : ProcessScreenshotSettles(id, fulfilled)
  \/ BatchSettled
  \/ PauseEnds

\* the pipeline runs beside a store that has no index yet
InitPipeline == Init /\ indexFile = Absent

SpecPipeline == InitPipeline /\ [][PipelineNext]_vars

SpecStore == Init /\ [][StoreNext]_vars

SpecIndex == Init /\ [][IndexNext]_vars

SpecSearch == SearchInit /\ [][SearchNext]_vars

SpecEntry == EntryInit /\ [][EntryNext]_vars

SpecFolder == FolderInit /\ [][FolderNext]_vars

SpecBatch == BatchInit /\ [][BatchNext]_vars

SpecRename == RenameInit /\ [][RenameNext]_vars

SpecKeywords == KeywordsInit /\ [][KeywordsNext]_vars

SpecTitle == TitleInit /\ [][TitleNext]_vars

SpecDelete == Init /\ [][DeleteNext]_vars

SpecAnalyse == InitPipeline /\ [][AnalyseNext]_vars

\* ------------------------------------------------------------ claims
Done(c) == callers[c].state \in {"returned", "raised"}

\* C1: calls for one artifact id that are outstanding together wait for the
\* same computation and get the same outcome and result, and at most one
\* doProcessScreenshot run (one remote-call sequence) is in progress per id.
C1_OneRunPerId ==
  /\ \A id \in Ids : Cardinality({r \in Callers : runs[r].id = id /\ InProgress(r)}) <= 1
  /\ \A c, d \in Callers :
        (callers[c].state = "awaiting" /\ callers[d].state = "awaiting"
           /\ callers[c].id = callers[d].id) => callers[c].run = callers[d].run
  /\ \A c, d \in Callers :
        (Done(c) /\ Done(d) /\ callers[c].run = callers[d].run)
          => (callers[c].state = callers[d].state /\ callers[c].result = callers[d].result)
  /\ \A c \in Callers :
        Done(c) => (callers[c].result = runs[callers[c].run].result
                     /\ runs[callers[c].run].id = callers[c].id)

\* two calls for the same id have both returned the result of one full run
C1_Witness ==
  \E c, d \in Callers :
    /\ c # d
    /\ callers[c].state = "returned" /\ callers[d].state = "returned"
    /\ callers[c].run = callers[d].run
    /\ callers[c].result.comprehensive_description # Unset
    /\ runs[d].pc = "unused"

\* C2: a settled computation leaves the registry when its creator resumes,
\* on success and on failure: no call attaches to a computation that had
\* already settled, and no entry names a computation whose creator is done.
C2_EntryRemovedOnSettle ==
  /\ \A c \in Callers : ~callers[c].foundSettled
  /\ \A id \in Ids :
        processingQueue[id] # None =>
          (callers[processingQueue[id]].state = "awaiting"
             /\ callers[processingQueue[id]].id = id)

\* a call for an id whose earlier computation failed has started a fresh one
C2_Witness ==
  \E c, d \in Callers :
    /\ callers[c].state = "raised" /\ callers[c].creator
    /\ callers[d].id = callers[c].id
    /\ callers[d].creator /\ d # c
    /\ InProgress(d)

\* C3 as claimed: once the image was read, no failing remote call makes
\* processScreenshot raise.
C3_RemoteFailureNeverRaises ==
  \A c \in Callers :
    callers[c].state = "raised" => runs[callers[c].run].error = "read"

\* C4: a run whose OCR stage yields empty text returns a result without
\* title, description, keywords and comprehensive description, and issues no
\* remote call besides the OCR call.
C4_EmptyOcrShortCircuits ==
  \A r \in Callers :
    (runs[r].pc \notin {"unused", "ocr"} /\ runs[r].error # "read"
       /\ runs[r].locals.ocrResult.text = "")
      => /\ runs[r].pc = "fulfilled"
         /\ runs[r].calls = <<"ExtractAllText">>
         /\ runs[r].result.ocr_text = ""
         /\ runs[r].result.ai_title = Unset
         /\ runs[r].result.ai_description = Unset
         /\ runs[r].result.ai_keywords = Unset
         /\ runs[r].result.comprehensive_description = Unset

\* a call has returned the result of a run whose OCR text was empty
C4_Witness ==
  \E c \in Callers :
    /\ callers[c].state = "returned"
    /\ runs[callers[c].run].locals.ocrResult.text = ""
    /\ callers[c].result.ocr_text = ""

\* the addImage calls for an id that wait for a remote call
Waiting(a, id) == a[id].describe + a[id].embed

\* C5: addImage for an id that has a record is a no-op: it issues no
\* description and no embedding call, and the record, the index file and the
\* temporary file stay as they were.
C5_AddExistingIsNoOp ==
  [][ /\ \A id \in Ids : (Idle /\ Has(items, id)) => Waiting(adds', id) <= Waiting(adds, id)
      /\ (returned'.op = "addImage" /\ returned'.why = "skipped")
           => /\ Has(items, returned'.id)
              /\ returned'.outcome = "returned"
              /\ UNCHANGED <<items, indexFile, tmpFile, adds, saving>> ]_vars

\* an addImage call for an indexed id has returned while the record was persisted
C5_Witness ==
  /\ returned.op = "addImage" /\ returned.why = "skipped"
  /\ Has(items, returned.id)
  /\ indexFile = Document(items)

\* the records of a map all carry a non-empty vector
AllUsable(m) == \A i \in Ids : Has(m, i) => Len(m[i].embedding) > 0

C7_DiskMirrorsMemory ==
  (Idle /\ returned.op \in {"addImage", "removeItem", "purgeStaleEmbeddings"})
    => loadExistingData(indexFile) = items

\* C8: the index file is never a partial document, also when the process
\* ends inside save(); it changes only by the rename of the completely
\* written temporary file, which holds the whole map.
C8_IndexNeverPartial ==
  /\ [](indexFile.state \in {"absent", "complete"})
  /\ [][ indexFile' # indexFile
           => /\ tmpFile.state = "complete"
              /\ tmpFile.items = items
              /\ indexFile' = tmpFile ]_vars

\* the process ended between the write of the temporary file and the rename:
\* the index file is the complete previous document
C8_Witness ==
  /\ returned.op = "restart" /\ returned.outcome = "written"
  /\ indexFile.state = "complete"
  /\ tmpFile.state = "leftover"
  /\ items = indexFile.items

\* the map without the records whose backing file does not exist
WithoutMissing(m) ==
  [i \in Ids |-> IF m[i].path \in Paths \ files THEN NoItem ELSE m[i]]

\* C9: purgeStaleEmbeddings removes the records whose file is missing and no
\* other; with a removal it calls save() once, after the loop, and without
\* one it writes nothing.
C9_PurgeRemovesStaleSavesOnce ==
  /\ [](saving.by = "purge" => saving.left = 0)
  /\ [][ /\ (Idle /\ (saving'.by = "purge" \/ returned'.why = "nothing-stale"))
              => /\ items' = WithoutMissing(items)
                 /\ (saving'.by = "purge") = (items' # items)
                 /\ (returned'.why = "nothing-stale")
                      => UNCHANGED <<items, indexFile, tmpFile, saving>>
         /\ (returned'.op = "purgeStaleEmbeddings" /\ returned'.why = "purged")
              => /\ indexFile' = Document(items)
                 /\ saving'.pc = "idle" ]_vars

\* a purge has removed a record, kept another and written the rest to disk
C9_Witness ==
  /\ returned.op = "purgeStaleEmbeddings" /\ returned.why = "purged"
  /\ \E i, j \in Ids : Has(items, i) /\ ~Has(items, j) /\ PathOf(j) \notin files
  /\ indexFile = Document(items)

\* C10 as claimed: a searchByText call whose query embedding fails, or which
\* meets a stored vector of another length than the query's, raises.
C10_SearchSurfacesFailures ==
  (returned.op = "searchByText" /\ returned.why \in {"embed-failed", "mismatch"})
    => returned.outcome = "raised"

\* C11: the list a searchByText call returns has at most k entries, each for
\* a different id that has a record, in order of non-increasing score.
C11_AtMostKDistinctDescending ==
  [][ returned'.op = "searchByText"
        => LET r == returned'.results
           IN /\ search.pc = "embed" => Len(r) <= search.k
              /\ search.pc # "embed" => r = <<>>
              /\ \A i \in 1..Len(r) : Has(items, r[i].id) /\ ~r[i].score.threw
              /\ \A i, j \in 1..Len(r) : i # j => r[i].id # r[j].id
              /\ \A i \in 1..(Len(r) - 1) :
                    r[i].score.num * r[i + 1].score.den
                      >= r[i + 1].score.num * r[i].score.den ]_vars

\* a search has returned two records in another order than the map's, the
\* better match first
C11_Witness ==
  /\ returned.op = "searchByText" /\ returned.why = "ranked"
  /\ Len(returned.results) = 2
  /\ returned.results[1].id > returned.results[2].id
  /\ returned.results[1].score.num * returned.results[2].score.den
       > returned.results[2].score.num * returned.results[1].score.den

\* the ids of a result list, and the places of an id in it
IdsOf(results) == {results[i].id : i \in 1..Len(results)}
Places(results, id) == {i \in 1..Len(results) : results[i].id = id}

FirstOfId(results) ==
  SelectSeq([i \in 1..Len(results) |-> [row |-> results[i],
                                        first |-> \A j \in 1..(i - 1) : results[j].id # results[i].id]],
            LAMBDA e : e.first)

\* C13: search-screenshots never raises. Without an embedding service, and
\* when an error is thrown while the semantic hits are merged, the reply is
\* the list of the text search; when the query's embedding fails inside
\* searchByText the reply is made of the rows of the text search alone.
C13_SemanticFailureFallsBackToText ==
  replied.op = "search-screenshots"
    => /\ replied.outcome = "returned"
       /\ replied.why \in {"text-only", "semantic-failed"} => replied.results = replied.text
       /\ (replied.why = "merged" /\ returned.why \in {"embed-failed", "mismatch"})
            => /\ Len(replied.results) = Len(FirstOfId(replied.text))
               /\ \A i \in 1..Len(replied.results) :
                     replied.results[i] = FirstOfId(replied.text)[i].row

\* an error thrown while the semantic hits were merged has been answered
\* with the rows of the text search
C13_Witness ==
  /\ replied.op = "search-screenshots" /\ replied.why = "semantic-failed"
  /\ replied.outcome = "returned"
  /\ replied.semantic # <<>>
  /\ replied.results # <<>>

\* C14 as claimed: a Recent{days} folder holds the artifacts created at or
\* after now - days * 86400 s, the one created exactly then included.
C14_RecentIncludesBoundary ==
  (replied.op = "smart-folder" /\ replied.rules.type = "recent" /\ replied.rules.days # 0)
    => replied.results =
         {i \in Existing : created[i] >= replied.now - replied.rules.days * 86400 * 1000}

\* the positions of the list a batchProcess call was given, and the group
\* of three a position falls in
Positions == 1..Len(batch.screenshots)
GroupOf(p) == (p - 1) \div 3

\* C15: batchProcess has at most 3 pipelines outstanding, starts them in
\* the order of the list, and starts none of a group before every pipeline
\* of the groups before it has succeeded or failed.
C15_GroupsOfThree ==
  /\ Cardinality(Outstanding(batch)) <= 3
  /\ \A p, q \in Positions :
        (batch.status[p] # "not-started" /\ q < p) => batch.status[q] # "not-started"
  /\ \A p, q \in Positions :
        (batch.status[p] # "not-started" /\ GroupOf(q) < GroupOf(p))
          => batch.status[q] \in {"fulfilled", "rejected"}

\* the three pipelines of the second group are outstanding after a pipeline
\* of the first group has failed
C15_Witness ==
  /\ batch.pc = "batch"
  /\ Outstanding(batch) = {4, 5, 6}
  /\ \E q \in 1..3 : batch.status[q] = "rejected"

\* C16: batchProcess never raises; when it returns, every screenshot of the
\* list has had its pipeline, failed ones included, and the returned map
\* has the ids whose pipeline succeeded and no other.
C16_FailureDoesNotAbortBatch ==
  /\ batch.pc \in {"idle", "batch", "pause", "returned"}
  /\ batch.pc = "returned"
       => /\ \A p \in Positions : batch.status[p] \in {"fulfilled", "rejected"}
          /\ batch.results = {batch.screenshots[p] : p \in {q \in Positions : batch.status[q] = "fulfilled"}}

\* a batchProcess call has returned after a failed pipeline in its first
\* group and a successful one in a later group
C16_Witness ==
  /\ batch.pc = "returned"
  /\ \E p, q \in Positions :
        /\ GroupOf(p) = 0 /\ batch.status[p] = "rejected"
        /\ GroupOf(q) > 0 /\ batch.status[q] = "fulfilled"
        /\ batch.screenshots[q] \in batch.results
        /\ batch.screenshots[p] \notin batch.results

\* C17 as claimed: the vectors of the records of the map all have one length.
C17_OneVectorLength ==
  \A i, j \in Ids :
    (Has(items, i) /\ Has(items, j)) => Len(items[i].embedding) = Len(items[j].embedding)

\* C18 as claimed: the path of a record follows the renames of its
\* artifact's file, so that a purge removes no record of an artifact whose
\* file exists.
C18_PurgeKeepsRenamedArtifacts ==
  [][ \A id \in Ids :
        (Has(items, id) /\ ~Has(items', id) /\ saving'.by = "purge")
          => screenshots[id] \notin files ]_vars

\* the remote calls of the full analysis
AnalysisCalls ==
  {"GenerateScreenshotTitle", "AnalyzeScreenshotContentDetailed",
   "AnalyzeScreenshotContent", "GenerateComprehensiveDescription"}

Issued(r, call) == \E i \in DOMAIN runs[r].calls : runs[r].calls[i] = call

\* C19: a run has issued no title, description, classification or
\* comprehensive-description call while its OCR call is outstanding, and it
\* has issued the comprehensive-description call only with its title and its
\* keywords set.
C19_AnalysisCallsFollowOcr ==
  \A r \in Callers :
    /\ (\E call \in AnalysisCalls : Issued(r, call))
         => /\ runs[r].calls[1] = "ExtractAllText"
            /\ runs[r].pc # "ocr"
    /\ Issued(r, "GenerateComprehensiveDescription")
         => /\ runs[r].locals.titleResult # Unset
            /\ runs[r].locals.keywordsResult =
                 extractKeywords(runs[r].locals.ocrResult.text)

C19_Witness ==
  \E r \in Callers :
    /\ runs[r].pc = "comprehensive"
    /\ runs[r].calls = <<"ExtractAllText", "GenerateScreenshotTitle",
                         "AnalyzeScreenshotContentDetailed", "AnalyzeScreenshotContent",
                         "GenerateComprehensiveDescription">>

\* a response that is not a usable OCR result: the call throws, the value has
\* another shape, or its text is empty
Malformed(resp) == resp.kind \in {"throw", "other"} \/ resp.text = ""

\* C20 as claimed: when the OCR call of a run returns, some response accounts
\* for the OCR result of the run such that a malformed or empty response
\* gave text "" with confidence 0 and any other response gave its text.
C20_MalformedOcrIsEmptyZero ==
  [][ \A r \in Callers :
        (runs[r].pc = "ocr" /\ runs'[r].pc # "ocr")
          => \E resp \in OcrResponses :
               /\ runs'[r].locals.ocrResult = extractText(resp)
               /\ IF Malformed(resp)
                    THEN extractText(resp) = [text |-> "", confidence |-> 0]
                    ELSE extractText(resp).text = resp.text ]_vars

\* a remote call that returns a string has failed or returned nothing
FailedOrEmpty(resp) == resp.kind = "throw" \/ ~Truthy(resp.text)

\* C21 as claimed: when the description call of a run returns, some response
\* accounts for the description of the run such that a failed call gave the
\* templated sentence, as an empty answer does.
C21_FailedDescriptionIsTemplate ==
  [][ \A r \in Callers :
        (runs[r].pc = "description" /\ runs'[r].pc # "description")
          => \E resp \in StringResponses :
               /\ runs'[r].locals.descriptionResult =
                    generateDescription(resp, runs[r].locals.ocrResult.text)
               /\ FailedOrEmpty(resp)
                    => runs'[r].locals.descriptionResult =
                         generateDescription(Resp("string", "", 0),
                                             runs[r].locals.ocrResult.text) ]_vars

\* the first n entries of a list
Take(list, n) == [i \in 1..(IF n < Len(list) THEN n ELSE Len(list)) |-> list[i]]

\* the semantic hits as entries of a result list
HitsAsEntries(hits) == [i \in 1..Len(hits) |-> SemanticEntry(hits[i])]

\* the rows of the text search whose id is none of ids, the first row of
\* each id only
TextOnly(text, ids) ==
  SelectSeq([i \in 1..Len(text) |->
               [row |-> text[i],
                keep |-> /\ text[i].id \notin ids
                         /\ \A j \in 1..(i - 1) : text[j].id # text[i].id]],
            LAMBDA e : e.keep)

RowsOf(marked) == [i \in 1..Len(marked) |-> marked[i].row]

\* the semantic hits whose screenshot has a row
HitsWithRow(hits) == SelectSeq(hits, LAMBDA h : h.id \in Existing)

C25_UnknownRuleIsEmptyAndReadOnly ==
  /\ [](replied.op = "smart-folder"
          => /\ replied.outcome = "returned"
             /\ replied.rules.type \notin {"all", "recent", "tag"} => replied.results = {})
  /\ [][replied'.op = "smart-folder"
          => UNCHANGED <<screenshots, metadata, created, links, files, items>>]_vars

\* a folder of an unrecognised rule type has been evaluated while there are
\* screenshots, one of them tagged and in a folder
C25_Witness ==
  /\ replied.op = "smart-folder"
  /\ replied.rules.type = "unknown"
  /\ replied.results = {}
  /\ Existing # {}
  /\ links.tag # {}
  /\ links.folder # {}

\* how often a word is among the words of a list, and where it is first
CountIn(words, w) == Cardinality({i \in 1..Len(words) : words[i] = w})
FirstIn(words, w) == CHOOSE i \in 1..Len(words) :
                       words[i] = w /\ \A j \in 1..(i - 1) : words[j] # w

\* w ranks before v: it is more frequent, or as frequent and met earlier
RanksBefore(words, w, v) ==
  \/ CountIn(words, w) > CountIn(words, v)
  \/ CountIn(words, w) = CountIn(words, v) /\ FirstIn(words, w) < FirstIn(words, v)

\* C23: extractKeywords returns at most 10 words of the lowercased text cut
\* at blanks and punctuation, each longer than 3 characters and no
\* stop-word, the most frequent ones, ordered by falling frequency and,
\* among equally frequent words, by first occurrence.
C23_TopTenKeywords ==
  local.fn = "extractKeywords"
    => LET out == local.out
           all == Split(local.ocrText)
           eligible == {all[i] : i \in {j \in 1..Len(all) :
                                          Len(all[j]) > 3 /\ all[j] \notin stopWords}}
       IN /\ Len(out) <= 10
          /\ \A i \in 1..Len(out) : out[i] \in eligible
          /\ \A i, j \in 1..Len(out) : i < j => RanksBefore(all, out[i], out[j])
          /\ \A w \in eligible :
                (\A i \in 1..Len(out) : out[i] # w)
                  => /\ Len(out) = 10
                     /\ RanksBefore(all, out[10], w)

\* twelve keywords were met: the one that is met twice, once with a capital,
\* comes first, and two of the eleven others are cut off
C23_Witness ==
  /\ local.fn = "extractKeywords"
  /\ Len(local.out) = 10
  /\ local.out[1] = "code"
  /\ local.out[2] = "alpha"
  /\ \E i \in 1..Len(local.ocrText) : local.ocrText[i] = "Code"

\* the lines of a text that may be a title as they are: at least 3
\* characters, not symbols only, at most 50 characters
TitleCandidates(ocrText) ==
  SelectSeq(Lines(ocrText),
            LAMBDA line : Len(line) >= 3 /\ ~SymbolOnly(line) /\ Len(line) <= 50)

\* the first n characters of a line
Cut(line, n) == [i \in 1..(IF n < Len(line) THEN n ELSE Len(line)) |-> line[i]]

\* C24 as claimed: when the title call fails or returns nothing, the title
\* is the first candidate line, cleaned; without a candidate line it is the
\* first line cut to 47 characters with an ellipsis (cleaned or not).
C24_HeuristicTitle ==
  (local.fn = "generateTitle" /\ FailedOrEmpty(local.resp))
    => LET candidates == TitleCandidates(local.ocrText)
           cut == Cut(Lines(local.ocrText)[1], 47) \o <<".", ".", ".">>
       IN IF candidates # <<>>
            THEN local.out = cleanTitle(candidates[1])
            ELSE local.out \in {cut, cleanTitle(cut)}

\* C26 as claimed: addImage calls for one id that is not indexed yet have at
\* most one remote call outstanding between them, and no addImage call sets
\* the record of an id that has one.
C26_ConcurrentAddsEmbedOnce ==
  /\ [](\A id \in Ids : adds[id].describe + adds[id].embed <= 1)
  /\ [][\A id \in Ids :
          (Has(items', id) /\ saving'.by = "addImage" /\ saving'.id = id
             /\ saving.pc = "idle")
            => ~Has(items, id)]_vars

\* C27 as claimed: once delete-screenshot has completed for an id, the
\* store holds no record for it, whatever was in flight for the id.
C27_DeletedIdHasNoRecord ==
  \A id \in Ids : screenshots[id] = None => ~Has(items, id)

\* the pipeline runs of an id that have returned a result
FulfilledRuns(id) == {r \in Callers : runs[r].id = id /\ runs[r].pc = "fulfilled"}

\* C28 as claimed: an artifact has at most one metadata row for each
\* pipeline run that returned a result for it, however many
\* processScreenshotWithAI calls were attached to the run.
C28_OneMetadataRowPerRun ==
  \A id \in Ids : metadata[id] <= Cardinality(FulfilledRuns(id))

\* C29 as claimed: no list search-screenshots replies with holds an id twice.
C29_NoIdTwiceInReply ==
  replied.op = "search-screenshots"
    => \A id \in Ids : Cardinality(Places(replied.results, id)) <= 1

\* C30 as claimed: when addImage raises because save() failed, the map
\* holds for the id what the index file holds for it.
C30_FailedSaveKeepsNoRecord ==
  (returned.op = "addImage" /\ returned.outcome = "raised" /\ returned.why = "save")
    => items[returned.id] = loadExistingData(indexFile)[returned.id]

====
